---- MODULE Spec2Model ----
(***************************************************************************)
(* Field-data materialization and memory mapping of                        *)
(* internal/core/src/common/Utils.h: GetDataSize, FillField,               *)
(* WriteFieldData and CreateMap, over a small POSIX file-system model      *)
(* (directory entries, inodes, descriptors, mappings).                     *)
(*                                                                         *)
(* Memory is modelled at byte level, little-endian.  A 32-bit element is   *)
(* an integer in the int32 range; a 64-bit element (int64, double) is the  *)
(* pair <<low word, high word>> of its two 32-bit halves; a float is the   *)
(* integer holding its IEEE-754 bit pattern.                               *)
(***************************************************************************)
EXTENDS Integers, Sequences, FiniteSets, TLC

\* Largest row count of a source record batch.
MaxRows == 3

Threads == {1, 2}

------------------------------------------------------------------------------
(* Logical types (DataType) and field metadata                              *)

ScalarTypes == {"BOOL", "INT8", "INT16", "INT32", "INT64", "FLOAT", "DOUBLE"}
VectorTypes == {"VECTOR_FLOAT", "VECTOR_BINARY"}
StringTypes == {"VARCHAR", "STRING"}
FixedTypes == ScalarTypes \cup VectorTypes
\* The enumerated set of the size calculator.
EnumeratedTypes == FixedTypes \cup StringTypes
\* A DataType enumerator outside the enumerated set.
OtherTypes == {"NONE"}
DataTypes == EnumeratedTypes \cup OtherTypes

datatype_is_variable(data_type) == data_type \in {"VARCHAR", "STRING"}

\* datatype_sizeof throws for a type it does not know.
get_sizeof_throws(field) == field.type \notin EnumeratedTypes

get_sizeof(field) ==
    CASE field.type \in {"BOOL", "INT8"} -> 1
      [] field.type = "INT16" -> 2
      [] field.type \in {"INT32", "FLOAT"} -> 4
      [] field.type \in {"INT64", "DOUBLE"} -> 8
      [] field.type = "VECTOR_FLOAT" -> 4 * field.dim
      [] field.type = "VECTOR_BINARY" -> field.dim \div 8
      [] field.type \in StringTypes -> field.max_length
      [] OTHER -> 0

------------------------------------------------------------------------------
(* Bytes                                                                    *)

RECURSIVE Flatten(_)
Flatten(ss) == IF ss = <<>> THEN <<>> ELSE Head(ss) \o Flatten(Tail(ss))

RECURSIVE SumLen(_)
SumLen(ss) == IF ss = <<>> THEN 0 ELSE Len(Head(ss)) + SumLen(Tail(ss))

\* The w low bytes of the two's complement representation of v, low byte first.
LEBytes(v, w) == [i \in 1..w |-> (v \div (256 ^ (i - 1))) % 256]

\* Conversion of a 32-bit integer to a w-byte signed integer (int8_t, int16_t).
Narrow(v, w) ==
    LET m == v % (256 ^ w)
    IN  IF m >= (256 ^ w) \div 2 THEN m - 256 ^ w ELSE m

Take(s, n) == SubSeq(s, 1, n)

\* memcpy(dst + off, src, n) on the region dst.
MemCpy(dst, off, src, n) ==
    [i \in 1..Len(dst) |-> IF off < i /\ i <= off + n THEN src[i - off] ELSE dst[i]]

------------------------------------------------------------------------------
(* Source record batches (DataArray)                                        *)
(*   BOOL: bool_data, bytes 0/1.  INT8, INT16, INT32: int_data, 32-bit      *)
(*   integers.  INT64: long_data.  FLOAT, DOUBLE: bit patterns.  VARCHAR,   *)
(*   STRING: string_data, byte strings.  VECTOR_FLOAT: the flat float       *)
(*   sequence.  VECTOR_BINARY: the flat byte string.                        *)

Int8Samples == {127, -128, 200}
Int16Samples == {32767, -32768, 40000}
Int32Samples == {2147483647, -2147483647}
Int64Samples == {<<-1, 2147483647>>, <<1, 0>>}
FloatSamples == {1065353216, 2143289344}
DoubleSamples == {<<0, 1072693248>>, <<1, 2146959360>>}
StringSamples == {<<>>, <<97, 98>>, <<99, 100, 101>>}

\* The values one row contributes to the batch's sequence.
RowSamples(type) ==
    CASE type = "BOOL" -> {<<0>>, <<1>>}
      [] type = "INT8" -> {<<v>> : v \in Int8Samples}
      [] type = "INT16" -> {<<v>> : v \in Int16Samples}
      [] type = "INT32" -> {<<v>> : v \in Int32Samples}
      [] type = "INT64" -> {<<v>> : v \in Int64Samples}
      [] type = "FLOAT" -> {<<v>> : v \in FloatSamples}
      [] type = "DOUBLE" -> {<<v>> : v \in DoubleSamples}
      [] type \in StringTypes -> {<<v>> : v \in StringSamples}
      [] type = "VECTOR_FLOAT" -> {<<1065353216, 2143289344>>, <<0, 1065353216>>}
      [] type = "VECTOR_BINARY" -> {<<255, 0>>, <<1, 128>>}
      [] OTHER -> {<<>>}

FieldOf(type) ==
    [type |-> type,
     dim |-> CASE type = "VECTOR_FLOAT" -> 2 [] type = "VECTOR_BINARY" -> 16 [] OTHER -> 1,
     max_length |-> IF type \in StringTypes THEN 8 ELSE 0]

SeqsUpTo(S, n) == UNION {[1..k -> S] : k \in 0..n}

\* A load request without its identifiers: field meta, row count, batch.
Columns ==
    UNION {{[field |-> FieldOf(type), row_count |-> Len(rows), data |-> Flatten(rows)] :
               rows \in SeqsUpTo(RowSamples(type), MaxRows)} : type \in DataTypes}

------------------------------------------------------------------------------
(* Size Calculator                                                          *)

\* GetDataSize that lets a type outside the enumerated set reach the
\* multiplication instead of signalling.
GetDataSizeThrows_VariableOnly(field) ==
    datatype_is_variable(field.type) /\ field.type \notin {"VARCHAR", "STRING"}

GetDataSizeThrows(field) ==
    IF datatype_is_variable(field.type)
    THEN field.type \notin {"VARCHAR", "STRING"}
    ELSE get_sizeof_throws(field)

GetDataSize(field, row_count, data) ==
    IF datatype_is_variable(field.type)
    THEN SumLen(data)
    ELSE get_sizeof(field) * row_count

------------------------------------------------------------------------------
(* Column Materializer                                                      *)

Words(data) == Flatten([i \in 1..Len(data) |-> LEBytes(data[i], 4)])
DWords(data) ==
    Flatten([i \in 1..Len(data) |-> LEBytes(data[i][1], 4) \o LEBytes(data[i][2], 4)])
Narrowed(data, w) ==
    LET data_raw == [i \in 1..Len(data) |-> Narrow(data[i], w)]
    IN  Flatten([i \in 1..Len(data) |-> LEBytes(data_raw[i], w)])

\* FillField copying the 32-bit source of an int8 / int16 column unnarrowed.
FillFieldSrc_Unnarrowed(data_type, data) ==
    CASE data_type \in {"BOOL", "VECTOR_BINARY"} -> data
      [] data_type \in {"INT8", "INT16", "INT32", "FLOAT", "VECTOR_FLOAT"} -> Words(data)
      [] data_type \in {"INT64", "DOUBLE"} -> DWords(data)

\* The buffer FillField hands to memcpy, per fixed-width case.
FillFieldSrc(data_type, data) ==
    CASE data_type = "BOOL" -> data
      [] data_type = "INT8" -> Narrowed(data, 1)
      [] data_type = "INT16" -> Narrowed(data, 2)
      [] data_type = "INT32" -> Words(data)
      [] data_type = "INT64" -> DWords(data)
      [] data_type = "FLOAT" -> Words(data)
      [] data_type = "DOUBLE" -> DWords(data)
      [] data_type = "VECTOR_FLOAT" -> Words(data)
      [] data_type = "VECTOR_BINARY" -> data

RECURSIVE FillVarchar(_, _, _, _)
FillVarchar(dst, data, k, dest) ==
    IF k > Len(data)
    THEN dst
    ELSE FillVarchar(MemCpy(dst, dest, data[k], Len(data[k])), data, k + 1,
                     dest + Len(data[k]))

FillFieldThrows(data_type) == data_type \notin FixedTypes \cup {"VARCHAR"}

\* The region dst after FillField.
FillField(data_type, size, data, dst) ==
    IF data_type = "VARCHAR"
    THEN FillVarchar(dst, data, 1, 0)
    ELSE MemCpy(dst, 0, FillFieldSrc(data_type, data), size)

\* WriteFieldData writing the 32-bit source of an int8 / int16 column unnarrowed.
WriteFieldDataSrc_Unnarrowed(data_type, data) ==
    CASE data_type \in {"BOOL", "VECTOR_BINARY"} -> data
      [] data_type \in {"INT8", "INT16", "INT32", "FLOAT", "VECTOR_FLOAT"} -> Words(data)
      [] data_type \in {"INT64", "DOUBLE"} -> DWords(data)

\* The buffer WriteFieldData hands to write, per fixed-width case.
WriteFieldDataSrc(data_type, data) ==
    CASE data_type = "BOOL" -> data
      [] data_type = "INT8" -> Narrowed(data, 1)
      [] data_type = "INT16" -> Narrowed(data, 2)
      [] data_type = "INT32" -> Words(data)
      [] data_type = "INT64" -> DWords(data)
      [] data_type = "FLOAT" -> Words(data)
      [] data_type = "DOUBLE" -> DWords(data)
      [] data_type = "VECTOR_FLOAT" -> Words(data)
      [] data_type = "VECTOR_BINARY" -> data

WriteFieldDataThrows(data_type) == data_type \notin FixedTypes \cup {"VARCHAR"}

\* What write(fd, buf, n) may return: the error sentinel, or a count up to n
\* (short below n); a write of no bytes returns 0.
WriteResults(n) == IF n = 0 THEN {0} ELSE {-1} \cup 1..n

\* a < b and a == b where a is an ssize_t and b a size_t: a is converted to
\* size_t, and a negative a becomes a value above every size.
SizeTLess(a, b) == a >= 0 /\ a < b
SizeTEq(a, b) == a >= 0 /\ a = b

------------------------------------------------------------------------------
(* Mapping Manager: state                                                   *)

MmapDir == "/mmap"
SegmentIds == {1, 12}
FieldIds == {3, 23}

\* std::filesystem::path(dir) / std::to_string(segment_id) / std::to_string(field_id)
FilePath(dir, segment_id, field_id) ==
    dir \o "/" \o ToString(segment_id) \o "/" \o ToString(field_id)
ParentPath(dir, segment_id) == dir \o "/" \o ToString(segment_id)

AllPaths == {FilePath(MmapDir, s, f) : s \in SegmentIds, f \in FieldIds}

NoMap == [kind |-> "none", ino |-> 0, len |-> 0, bytes |-> <<>>]

\* The locals of one CreateMap call; ret is what the call ended with.
IdleCall ==
    [pc |-> "idle", kind |-> "none", fdopen |-> FALSE, fd |-> 0, size |-> 0,
     written |-> 0, idx |-> 1, failed |-> FALSE, short |-> FALSE,
     trace |-> <<>>, map |-> NoMap, ret |-> "none"]

VARIABLES
    req,     \* req[t]: the load request thread t serves (column, segment, field)
    todo,    \* todo[t]: the paths thread t has still to call CreateMap on
    call,    \* call[t]: the running call's locals
    res,     \* res[t][kind]: the call that ended on that path, with its mapping
    dirs,    \* the directories that exist
    fs,      \* fs[path]: the inode the directory entry names, 0 for none
    ino      \* ino[i]: the bytes of inode i

vars == <<req, todo, call, res, dirs, fs, ino>>

Path(t) == FilePath(MmapDir, req[t].segment_id, req[t].field_id)
Dir(t) == ParentPath(MmapDir, req[t].segment_id)
Col(t) == req[t].col

\* The bytes a mapping shows: an anonymous region's own, or the file's.
MapBytes(m) ==
    CASE m.kind = "anon" -> m.bytes
      [] m.kind = "file" -> Take(ino[m.ino], IF m.len < Len(ino[m.ino]) THEN m.len
                                               ELSE Len(ino[m.ino]))
      [] OTHER -> <<>>

Requests(cols, segs, flds) ==
    {[col |-> c, segment_id |-> s, field_id |-> f] : c \in cols, s \in segs, f \in flds}

StaleBytes == <<7, 7, 7, 7, 7>>

\* One thread calls CreateMap on one column, once per path; the file of an
\* earlier load may still lie at the path.
Init ==
    /\ \E r \in Requests(Columns, {1}, {23}) : req = [t \in Threads |-> r]
    /\ todo = [t \in Threads |-> IF t = 1 THEN {"anon", "file"} ELSE {}]
    /\ call = [t \in Threads |-> IdleCall]
    /\ res = [t \in Threads |-> [anon |-> IdleCall, file |-> IdleCall]]
    /\ \E stale \in BOOLEAN :
          IF stale
          THEN /\ dirs = {ParentPath(MmapDir, 1)}
               /\ fs = [p \in AllPaths |-> IF p = FilePath(MmapDir, 1, 23) THEN 1 ELSE 0]
               /\ ino = <<StaleBytes>>
          ELSE /\ dirs = {}
               /\ fs = [p \in AllPaths |-> 0]
               /\ ino = <<>>

------------------------------------------------------------------------------
(* Mapping Manager: CreateMap, one action per step                          *)

Goto(t, c) == call' = [call EXCEPT ![t] = c]

\* The call ends: by return (ret "null" or "addr") or by a failed
\* AssertInfo / PanicInfo / exception (ret "fatal").  The record kept in res
\* holds the locals as they were, pc at the step that ended the call.
End(t, c, ret) ==
    /\ res' = [res EXCEPT ![t][c.kind] = [c EXCEPT !.ret = ret]]
    /\ call' = [call EXCEPT ![t] = IdleCall]

Fail(t, c) == End(t, [c EXCEPT !.failed = TRUE], "fatal")

\* if (info.mmap_dir_path == nullptr) ...
Call(t) ==
    /\ call[t].pc = "idle"
    /\ \E k \in todo[t] :
          /\ todo' = [todo EXCEPT ![t] = @ \ {k}]
          /\ Goto(t, [IdleCall EXCEPT !.kind = k,
                                      !.pc = IF k = "anon" THEN "anon_size" ELSE "mkdir"])
    /\ UNCHANGED <<req, res, dirs, fs, ino>>

AnonGetDataSize(t) ==
    LET c == call[t]
        data_size == GetDataSize(Col(t).field, Col(t).row_count, Col(t).data)
    IN  /\ c.pc = "anon_size"
        /\ IF GetDataSizeThrows(Col(t).field)
           THEN End(t, c, "fatal")
           ELSE IF data_size = 0
                THEN End(t, c, "null")
                ELSE Goto(t, [c EXCEPT !.pc = "anon_mmap", !.size = data_size]) /\ UNCHANGED res
        /\ UNCHANGED <<req, todo, dirs, fs, ino>>

AnonMmap(t) ==
    LET c == call[t]
    IN  /\ c.pc = "anon_mmap"
        /\ \/ Goto(t, [c EXCEPT !.pc = "fill",
                                !.trace = Append(@, "mmap"),
                                !.map = [kind |-> "anon", ino |-> 0, len |-> c.size,
                                         bytes |-> [i \in 1..c.size |-> 0]]])
              /\ UNCHANGED res
           \/ Fail(t, c)
        /\ UNCHANGED <<req, todo, dirs, fs, ino>>

AnonFillField(t) ==
    LET c == call[t]
        type == Col(t).field.type
    IN  /\ c.pc = "fill"
        /\ IF FillFieldThrows(type)
           THEN End(t, c, "fatal")
           ELSE End(t, [c EXCEPT !.map.bytes = FillField(type, c.size, Col(t).data, @)],
                    "addr")
        /\ UNCHANGED <<req, todo, dirs, fs, ino>>

CreateDirectories(t) ==
    LET c == call[t]
    IN  /\ c.pc = "mkdir"
        /\ \/ /\ dirs' = dirs \cup {Dir(t)}
              /\ Goto(t, [c EXCEPT !.pc = "open", !.trace = Append(@, "mkdir")])
              /\ UNCHANGED res
           \/ Fail(t, c) /\ UNCHANGED dirs
        /\ UNCHANGED <<req, todo, fs, ino>>

\* open(filepath, O_CREAT | O_TRUNC | O_RDWR)
OpenFile(t) ==
    LET c == call[t]
    IN  /\ c.pc = "open"
        /\ \/ /\ Dir(t) \in dirs
              /\ IF fs[Path(t)] # 0
                 THEN /\ ino' = [ino EXCEPT ![fs[Path(t)]] = <<>>]
                      /\ fs' = fs
                      /\ Goto(t, [c EXCEPT !.pc = "size", !.fdopen = TRUE,
                                           !.fd = fs[Path(t)],
                                           !.trace = Append(@, "open")])
                 ELSE /\ ino' = Append(ino, <<>>)
                      /\ fs' = [fs EXCEPT ![Path(t)] = Len(ino) + 1]
                      /\ Goto(t, [c EXCEPT !.pc = "size", !.fdopen = TRUE,
                                           !.fd = Len(ino) + 1,
                                           !.trace = Append(@, "open")])
              /\ UNCHANGED res
           \/ Fail(t, c) /\ UNCHANGED <<fs, ino>>
        /\ UNCHANGED <<req, todo, dirs>>

\* size_t size = field_meta.get_sizeof() * info.row_count;
ComputeSize(t) ==
    LET c == call[t]
    IN  /\ c.pc = "size"
        /\ IF get_sizeof_throws(Col(t).field)
           THEN End(t, c, "fatal")
           ELSE Goto(t, [c EXCEPT !.pc = "write",
                                  !.size = get_sizeof(Col(t).field) * Col(t).row_count])
                /\ UNCHANGED res
        /\ UNCHANGED <<req, todo, dirs, fs, ino>>

\* WriteFieldData, the fixed-width cases: return write(fd, buf, size).
WriteFixed(t) ==
    LET c == call[t]
        buf == WriteFieldDataSrc(Col(t).field.type, Col(t).data)
    IN  /\ c.pc = "write"
        /\ Col(t).field.type \in FixedTypes
        /\ \E n \in WriteResults(c.size) :
              /\ ino' = [ino EXCEPT ![c.fd] = @ \o Take(buf, IF n < 0 THEN 0 ELSE n)]
              /\ Goto(t, [c EXCEPT !.pc = "check", !.written = n,
                                   !.failed = @ \/ n = -1,
                                   !.short = @ \/ (n >= 0 /\ n < c.size),
                                   !.trace = Append(@, "write")])
        /\ UNCHANGED <<req, todo, res, dirs, fs>>

\* WriteFieldData, VARCHAR: one pass of the loop over the batch's strings.
\* written holds total_written; written < begin->size() compares unsigned.
WriteVarchar(t) ==
    LET c == call[t]
        elem == Col(t).data[c.idx]
    IN  /\ c.pc = "write"
        /\ Col(t).field.type = "VARCHAR"
        /\ c.idx <= Len(Col(t).data)
        /\ \E n \in WriteResults(Len(elem)) :
              /\ ino' = [ino EXCEPT ![c.fd] = @ \o Take(elem, IF n < 0 THEN 0 ELSE n)]
              /\ IF SizeTLess(n, Len(elem))
                 THEN Goto(t, [c EXCEPT !.pc = "check", !.short = TRUE,
                                        !.trace = Append(@, "write")])
                 ELSE Goto(t, [c EXCEPT !.written = @ + n, !.idx = @ + 1,
                                        !.failed = @ \/ n = -1,
                                        !.trace = Append(@, "write")])
        /\ UNCHANGED <<req, todo, res, dirs, fs>>

\* WriteFieldData, VARCHAR: begin == end, return total_written.
WriteVarcharEnd(t) ==
    LET c == call[t]
    IN  /\ c.pc = "write"
        /\ Col(t).field.type = "VARCHAR"
        /\ c.idx > Len(Col(t).data)
        /\ Goto(t, [c EXCEPT !.pc = "check"])
        /\ UNCHANGED <<req, todo, res, dirs, fs, ino>>

\* WriteFieldData, default: PanicInfo("unsupported").
WriteUnsupported(t) ==
    LET c == call[t]
    IN  /\ c.pc = "write"
        /\ WriteFieldDataThrows(Col(t).field.type)
        /\ End(t, c, "fatal")
        /\ UNCHANGED <<req, todo, dirs, fs, ino>>

\* The write check with the variable-width exemption given to every type.
WrittenOk_AnyType(written, size, data_type) ==
    SizeTEq(written, size) \/ written # -1

\* written == size || written != -1 && datatype_is_variable(data_type)
WrittenOk(written, size, data_type) ==
    SizeTEq(written, size) \/ (written # -1 /\ datatype_is_variable(data_type))

CheckWritten(t) ==
    LET c == call[t]
    IN  /\ c.pc = "check"
        /\ IF WrittenOk(c.written, c.size, Col(t).field.type)
           THEN Goto(t, [c EXCEPT !.pc = "fsync"]) /\ UNCHANGED res
           ELSE End(t, c, "fatal")
        /\ UNCHANGED <<req, todo, dirs, fs, ino>>

\* fsync, then the empty-field return.
Fsync(t) ==
    LET c == call[t]
        d == [c EXCEPT !.trace = Append(@, "fsync")]
    IN  /\ c.pc = "fsync"
        /\ \/ IF c.written = 0
              THEN End(t, d, "null")
              ELSE Goto(t, [d EXCEPT !.pc = "mmap"]) /\ UNCHANGED res
           \/ Fail(t, c)
        /\ UNCHANGED <<req, todo, dirs, fs, ino>>

\* mmap(NULL, written, PROT_READ, mmap_flags, fd, 0); a negative written is a
\* length no address space holds.
Mmap(t) ==
    LET c == call[t]
    IN  /\ c.pc = "mmap"
        /\ \/ /\ c.written > 0
              /\ Goto(t, [c EXCEPT !.pc = "unlink",
                                   !.trace = Append(@, "mmap"),
                                   !.map = [kind |-> "file", ino |-> c.fd,
                                            len |-> c.written, bytes |-> <<>>]])
              /\ UNCHANGED res
           \/ Fail(t, c)
        /\ UNCHANGED <<req, todo, dirs, fs, ino>>

\* CreateMap closing the descriptor without unlinking the file.
Unlink_Skipped(t) ==
    LET c == call[t]
    IN  /\ c.pc = "unlink"
        /\ Goto(t, [c EXCEPT !.pc = "close"])
        /\ UNCHANGED <<req, todo, res, dirs, fs, ino>>

Unlink(t) ==
    LET c == call[t]
    IN  /\ c.pc = "unlink"
        /\ \/ /\ fs[Path(t)] # 0
              /\ fs' = [fs EXCEPT ![Path(t)] = 0]
              /\ Goto(t, [c EXCEPT !.pc = "close", !.trace = Append(@, "unlink")])
              /\ UNCHANGED res
           \/ Fail(t, c) /\ UNCHANGED fs
        /\ UNCHANGED <<req, todo, dirs, ino>>

\* close(fd): the descriptor is released whatever close returns.
Close(t) ==
    LET c == call[t]
        d == [c EXCEPT !.fdopen = FALSE]
    IN  /\ c.pc = "close"
        /\ \/ End(t, [d EXCEPT !.trace = Append(@, "close")], "addr")
           \/ Fail(t, d)
        /\ UNCHANGED <<req, todo, dirs, fs, ino>>

Next ==
    \E t \in Threads :
        \/ Call(t)
        \/ AnonGetDataSize(t)
        \/ AnonMmap(t)
        \/ AnonFillField(t)
        \/ CreateDirectories(t)
        \/ OpenFile(t)
        \/ ComputeSize(t)
        \/ WriteFixed(t)
        \/ WriteVarchar(t)
        \/ WriteVarcharEnd(t)
        \/ WriteUnsupported(t)
        \/ CheckWritten(t)
        \/ Fsync(t)
        \/ Mmap(t)
        \/ Unlink(t)
        \/ Close(t)

Spec == Init /\ [][Next]_vars

------------------------------------------------------------------------------
(* Two threads, each one file-backed CreateMap call, under one mapping      *)
(* directory                                                                *)

ConcColumns ==
    {c \in Columns :
        \/ c.field.type = "INT16" /\ c.data = <<32767, -32768>>
        \/ c.field.type = "VARCHAR" /\ c.data \in {<<>>, << <<97, 98>>, <<99, 100, 101>> >>}}

InitConc ==
    /\ \E r1 \in Requests(ConcColumns, {1}, {23}),
          r2 \in Requests(ConcColumns, SegmentIds, FieldIds) :
          req = [t \in Threads |-> IF t = 1 THEN r1 ELSE r2]
    /\ todo = [t \in Threads |-> {"file"}]
    /\ call = [t \in Threads |-> IdleCall]
    /\ res = [t \in Threads |-> [anon |-> IdleCall, file |-> IdleCall]]
    /\ dirs = {}
    /\ fs = [p \in AllPaths |-> 0]
    /\ ino = <<>>

NextConc ==
    \E t \in Threads :
        \/ Call(t)
        \/ CreateDirectories(t)
        \/ OpenFile(t)
        \/ ComputeSize(t)
        \/ WriteFixed(t)
        \/ WriteVarchar(t)
        \/ WriteVarcharEnd(t)
        \/ CheckWritten(t)
        \/ Fsync(t)
        \/ Mmap(t)
        \/ Unlink(t)
        \/ Close(t)

SpecConc == InitConc /\ [][NextConc]_vars

------------------------------------------------------------------------------
(* Properties                                                               *)

Kinds == {"anon", "file"}
Returned == {"null", "addr"}
Has(trace, op) == \E i \in 1..Len(trace) : trace[i] = op
Before(trace, a, b) ==
    \E i \in 1..Len(trace), j \in 1..Len(trace) : i < j /\ trace[i] = a /\ trace[j] = b

\* The types both materializers have a case for.
MaterializedTypes == FixedTypes \cup {"VARCHAR"}

EmptyColumn(c) ==
    IF c.field.type \in StringTypes THEN SumLen(c.data) = 0 ELSE c.row_count = 0

\* The column's bytes: the fixed-width buffer, or the strings end to end.
ColumnBytes(c) ==
    IF c.field.type \in StringTypes THEN Flatten(c.data)
    ELSE FillFieldSrc(c.field.type, c.data)

\* off(k): the byte lengths of elements 0..k-1 summed.
Off(data, k) == SumLen(SubSeq(data, 1, k))

\* The signed integer whose two's complement bytes are bs, low byte first.
FromLE(bs) ==
    LET w == Len(bs)
        top == IF bs[w] >= 128 THEN bs[w] - 256 ELSE bs[w]
        RECURSIVE Low(_)
        Low(j) == IF j = 0 THEN 0 ELSE bs[j] * (256 ^ (j - 1)) + Low(j - 1)
    IN  top * (256 ^ (w - 1)) + Low(w - 1)

\* Row i (from 1) of a region read back at the type's stride.
ReadRow(bytes, i, field) ==
    LET w == get_sizeof(field)
        row == SubSeq(bytes, (i - 1) * w + 1, i * w)
    IN  CASE field.type \in {"BOOL", "VECTOR_BINARY"} -> row
          [] field.type \in {"INT8", "INT16", "INT32", "FLOAT"} -> <<FromLE(row)>>
          [] field.type \in {"INT64", "DOUBLE"} ->
                << <<FromLE(SubSeq(row, 1, 4)), FromLE(SubSeq(row, 5, 8))>> >>
          [] field.type = "VECTOR_FLOAT" ->
                [j \in 1..field.dim |-> FromLE(SubSeq(row, 4 * (j - 1) + 1, 4 * j))]

\* Row i (from 1) of the source batch.
SourceRow(c, i) ==
    LET n == Len(c.data) \div c.row_count
    IN  SubSeq(c.data, (i - 1) * n + 1, i * n)

InTargetRange(c, i) ==
    CASE c.field.type = "INT8" -> c.data[i] >= -128 /\ c.data[i] <= 127
      [] c.field.type = "INT16" -> c.data[i] >= -32768 /\ c.data[i] <= 32767
      [] OTHER -> TRUE

\* C1 (as claimed): an empty column makes CreateMap return null on both
\* paths, and when it has returned null no mapping exists and, on the
\* file-backed path, no file exists at <mapping_dir_path>/<segment_id>/<field_id>.
C1_EmptyFieldLeavesNothing ==
    \A t \in Threads : \A k \in Kinds :
        LET r == res[t][k]
        IN  (/\ Col(t).field.type \in MaterializedTypes
             /\ EmptyColumn(Col(t))
             /\ r.ret # "none"
             /\ ~r.failed)
            => /\ r.ret = "null"
               /\ r.map = NoMap
               /\ (k = "file" => fs[Path(t)] = 0)

\* C2: after a file-backed call that returned an address the path does not
\* exist, the call's descriptor is closed, the mapping is established over
\* the written byte range and shows the bytes written there (the whole file
\* when no write was short or failed), and mmap came before unlink, unlink
\* before close.
C2_FileCleanup ==
    \A t \in Threads :
        LET r == res[t].file
        IN  r.ret = "addr"
            => /\ fs[Path(t)] = 0
               /\ ~r.fdopen
               /\ r.map.kind = "file"
               /\ r.map.len = r.written
               /\ MapBytes(r.map) = Take(ino[r.fd], r.written)
               /\ Len(MapBytes(r.map)) = r.written
               /\ (~r.short /\ ~r.failed => MapBytes(r.map) = ino[r.fd])
               /\ Before(r.trace, "mmap", "unlink")
               /\ Before(r.trace, "unlink", "close")

C2_Witness ==
    \E t \in Threads :
        /\ res[t].file.ret = "addr"
        /\ Col(t).field.type = "INT32"
        /\ Col(t).row_count = 2
        /\ Len(MapBytes(res[t].file.map)) = 8

\* C3 (as claimed): a region returned on either path is as long as
\* GetDataSize says for the same field, row count and batch.
C3_LengthIsDataSize ==
    \A t \in Threads : \A k \in Kinds :
        res[t][k].ret = "addr"
        => res[t][k].map.len = GetDataSize(Col(t).field, Col(t).row_count, Col(t).data)

\* C4 (as claimed): a call in which open, write, fsync, mmap, unlink or close
\* returned its error sentinel ends in the fatal assertion, never in an
\* address or null.
C4_FailureIsFatal ==
    \A t \in Threads : \A k \in Kinds :
        (res[t][k].ret # "none" /\ res[t][k].failed) => res[t][k].ret = "fatal"

C6_AnonRoundTrip ==
    \A t \in Threads :
        LET r == res[t].anon
            c == Col(t)
        IN  (r.ret = "addr" /\ c.field.type \in FixedTypes)
            => /\ Len(MapBytes(r.map)) = get_sizeof(c.field) * c.row_count
               /\ \A i \in 1..c.row_count :
                     InTargetRange(c, i)
                     => ReadRow(MapBytes(r.map), i, c.field) = SourceRow(c, i)

C6_Witness ==
    \E t \in Threads :
        /\ res[t].anon.ret = "addr"
        /\ Col(t).field.type = "INT16"
        /\ Col(t).data = <<32767, -32768>>
        /\ MapBytes(res[t].anon.map) = <<255, 127, 0, 128>>

\* C7: for a fixed-width type, when the anonymous call and the file-backed
\* call on the same input have both returned, both returned null or both
\* returned regions of one length holding the same bytes.
C7_PathsAgree ==
    \A t \in Threads :
        LET a == res[t].anon
            f == res[t].file
        IN  (/\ Col(t).field.type \in FixedTypes
             /\ a.ret \in Returned
             /\ f.ret \in Returned)
            => /\ a.ret = f.ret
               /\ a.map.len = f.map.len
               /\ MapBytes(a.map) = MapBytes(f.map)

C7_Witness ==
    \E t \in Threads :
        /\ Col(t).field.type = "INT8"
        /\ Col(t).data = <<127, -128, 200>>
        /\ res[t].anon.ret = "addr"
        /\ res[t].file.ret = "addr"
        /\ MapBytes(res[t].file.map) = <<127, 128, 200>>

\* C8 (as claimed): the region returned for a string column is the elements
\* end to end: element k lies at [off(k), off(k+1)) and the length is off(n).
C8_StringLayout ==
    \A t \in Threads : \A k \in Kinds :
        LET r == res[t][k]
            data == Col(t).data
            b == MapBytes(r.map)
        IN  (r.ret = "addr" /\ Col(t).field.type \in StringTypes)
            => /\ r.map.len = Off(data, Len(data))
               /\ Len(b) = Off(data, Len(data))
               /\ \A e \in 1..Len(data) :
                     SubSeq(b, Off(data, e - 1) + 1, Off(data, e)) = data[e]

\* C10: for a fixed-width type the file-backed call is past the write check
\* (at fsync, mmap, unlink, close, or returned) only with written equal to
\* size = element width x row count, and a short write ends fatally.
C10_FixedWidthExactWrite ==
    \A t \in Threads :
        Col(t).field.type \in FixedTypes
        => \A c \in {call[t], res[t].file} :
              /\ (c.kind = "file" /\ c.pc \in {"fsync", "mmap", "unlink", "close"})
                 => /\ c.written = c.size
                    /\ c.size = get_sizeof(Col(t).field) * Col(t).row_count
              /\ (c.kind = "file" /\ c.ret \in Returned) => c.written = c.size
              /\ (c.short /\ c.ret # "none") => c.ret = "fatal"

C10_Witness ==
    \E t \in Threads :
        /\ Col(t).field.type \in FixedTypes
        /\ res[t].file.short
        /\ res[t].file.written = res[t].file.size - 1
        /\ res[t].file.pc = "check"
        /\ res[t].file.ret = "fatal"

\* The inode thread t's file-backed call opened, 0 for none yet.
Inode(t) == IF call[t].kind = "file" THEN call[t].fd ELSE res[t].file.fd

DistinctPairs(t, u) ==
    <<req[t].segment_id, req[t].field_id>> # <<req[u].segment_id, req[u].field_id>>

\* C9 (as claimed): two concurrent file-backed calls for different
\* (segment_id, field_id) pairs work on different files, and each returns a
\* mapping holding exactly its own column's bytes, under every interleaving.
C9_ConcurrentCallsIndependent ==
    \A t \in Threads : \A u \in Threads \ {t} :
        DistinctPairs(t, u)
        => /\ Path(t) # Path(u)
           /\ (Inode(t) # 0 /\ Inode(u) # 0) => Inode(t) # Inode(u)
           /\ res[t].file.ret = "addr"
              => MapBytes(res[t].file.map) = ColumnBytes(Col(t))

\* What holds of the two concurrent calls: they never share a file, a call
\* that returned an address has removed its own path, and its mapping holds
\* exactly its own column's bytes unless one of its own writes was short or
\* failed.
ConcIsolation ==
    \A t \in Threads : \A u \in Threads \ {t} :
        DistinctPairs(t, u)
        => /\ Path(t) # Path(u)
           /\ (Inode(t) # 0 /\ Inode(u) # 0) => Inode(t) # Inode(u)
           /\ res[t].file.ret = "addr"
              => /\ fs[Path(t)] = 0
                 /\ MapBytes(res[t].file.map) = Take(ino[Inode(t)], res[t].file.written)
                 /\ (~res[t].file.short /\ ~res[t].file.failed)
                    => MapBytes(res[t].file.map) = ColumnBytes(Col(t))

\* The same without the precondition: calls for one pair race on one file.
ConcIsolationSamePair ==
    \A t \in Threads :
        (res[t].file.ret = "addr" /\ ~res[t].file.short /\ ~res[t].file.failed)
        => MapBytes(res[t].file.map) = ColumnBytes(Col(t))

====
